---- MODULE Spec2Model ----
(***************************************************************************)
(* Model of Astikar_Portfolio_Manager_Pro.py: the weekly momentum          *)
(* rebalance (select_stocks, the SELL pass, the BUY pass, NAV accounting). *)
(*                                                                         *)
(* Money (capital, cash, NAV, Cost) is counted in thousandths of a rupee   *)
(* ("mils"), so that the 0.1% brokerage of an integer notional is an       *)
(* integer; prices are whole rupees.  Float arithmetic is modelled by      *)
(* exact arithmetic plus the not-a-number value NaN, which propagates      *)
(* through every operation and fails every comparison.                     *)
(* The three CSV files are modelled as loaded back exactly as saved.       *)
(***************************************************************************)
EXTENDS Integers, Sequences, FiniteSets, TLC

VARIABLES
    nav_df,         \* nav_history.csv: the sequence of recorded NAVs (mils)
    portfolio_df,   \* portfolio_history.csv: rows [Symbol, Shares], in file order
    entry_price,    \* per held symbol, the Price of its BUY row in trades_log.csv
    runs,           \* number of runs of main() so far
    status,         \* "idle" before the first run, then "done" or "aborted"
    friday,         \* is_friday() of the last run
    universe,       \* get_universe() of the last run
    score_data,     \* per symbol, what select_stocks derived from its closes
    selected,       \* select_stocks(universe) of the last run (<<>> when not run)
    latest_prices,  \* latest_prices of the last run
    capital,        \* capital of the last run
    loaded,         \* portfolio as loaded by the last run
    cash0,          \* cash of the last run before the rebalance
    cash1,          \* cash of the last run after its SELL pass
    cash,           \* cash of the last run when it ended
    portfolio,      \* in-memory portfolio of the last run when it ended
    trades          \* rows the last run added to trades_df, in order

vars == <<nav_df, portfolio_df, entry_price, runs, status, friday, universe,
          score_data, selected, latest_prices, capital, loaded, cash0, cash1,
          cash, portfolio, trades>>

----------------------------------------------------------------------------
(* Configuration *)

INITIAL_CAPITAL == 50000
MAX_STOCKS == 5
MILS == 1000            \* BROKERAGE_RATE = 1/1000: one mil per rupee of notional
BUFFER_TENTHS == 1      \* MIN_CASH_BUFFER = 0.10
MIN_HISTORY == 200

(* Bound of the model: the number of runs of main() explored. *)
MaxRuns == 3

----------------------------------------------------------------------------
(* Floats *)

NaN == -999999999

FAdd(a, b) == IF a = NaN \/ b = NaN THEN NaN ELSE a + b
FSub(a, b) == IF a = NaN \/ b = NaN THEN NaN ELSE a - b
FMul(a, b) == IF a = NaN \/ b = NaN THEN NaN ELSE a * b
FGe(a, b) == a # NaN /\ b # NaN /\ a >= b

(* int(x / y) for y > 0: truncation towards zero. *)
IntDiv(x, y) == IF x >= 0 THEN x \div y ELSE -((-x) \div y)

Range(seq) == {seq[i] : i \in 1..Len(seq)}

----------------------------------------------------------------------------
(* select_stocks *)

(* The filter select_stocks applies to one symbol's close series d: the
   series is there (no exception), long enough, and in an up-trend. *)
Passes(d) ==
    /\ ~d.err
    /\ d.len >= MIN_HISTORY
    /\ d.price > d.dma200
    /\ d.dma50 > d.dma200
    /\ d.m3 > 0
    /\ d.m6 > 0

ScoreM3Only(d) == d.m3

(* score = m3 + m6 *)
Score(d) == d.m3 + d.m6

RECURSIVE Candidates(_, _)
Candidates(symbols, data) ==
    IF symbols = <<>> THEN <<>>
    ELSE LET s == Head(symbols)
             rest == Candidates(Tail(symbols), data)
         IN IF s \in DOMAIN data /\ Passes(data[s])
            THEN <<[sym |-> s, score |-> Score(data[s])]>> \o rest
            ELSE rest

(* Where list.sort(key=score, reverse=True) puts x among the already sorted
   elements that preceded it: after every element that does not score less. *)
RECURSIVE InsertDesc(_, _)
InsertDesc(x, sorted) ==
    IF sorted = <<>> THEN <<x>>
    ELSE IF Head(sorted).score < x.score THEN <<x>> \o sorted
    ELSE <<Head(sorted)>> \o InsertDesc(x, Tail(sorted))

RECURSIVE SortDesc(_, _)
SortDesc(todo, sorted) ==
    IF todo = <<>> THEN sorted
    ELSE SortDesc(Tail(todo), InsertDesc(Head(todo), sorted))

NoTruncate(seq) == seq

(* selected[:MAX_STOCKS] *)
Truncate(seq) == SubSeq(seq, 1, IF Len(seq) < MAX_STOCKS THEN Len(seq) ELSE MAX_STOCKS)

select_stocks(symbols, data) ==
    LET ranked == Truncate(SortDesc(Candidates(symbols, data), <<>>))
    IN [i \in 1..Len(ranked) |-> ranked[i].sym]

----------------------------------------------------------------------------
(* Portfolio helpers *)

(* A row of trades_df (Date left out) and a row of portfolio_df. *)
TradeRow(symbol, action, price, shares, cost) ==
    [Symbol |-> symbol, Action |-> action, Price |-> price, Shares |-> shares, Cost |-> cost]
PositionRow(symbol, shares) == [Symbol |-> symbol, Shares |-> shares]

Keys(p) == {p[i].Symbol : i \in 1..Len(p)}
Keylist(p) == [i \in 1..Len(p) |-> p[i].Symbol]
SharesOf(p, s) == LET i == CHOOSE i \in 1..Len(p) : p[i].Symbol = s IN p[i].Shares

WithoutNone(p, s) == p

(* del portfolio[symbol] *)
RECURSIVE Without(_, _)
Without(p, s) ==
    IF p = <<>> THEN <<>>
    ELSE IF Head(p).Symbol = s THEN Without(Tail(p), s)
    ELSE <<Head(p)>> \o Without(Tail(p), s)

(* latest_prices.get(symbol, 0) *)
Get(prices, s) == IF s \in DOMAIN prices THEN prices[s] ELSE 0

RECURSIVE calculate_portfolio_value(_, _)
calculate_portfolio_value(p, close_prices) ==
    IF p = <<>> THEN 0
    ELSE LET row == Head(p)
             rest == calculate_portfolio_value(Tail(p), close_prices)
         IN IF row.Symbol \in DOMAIN close_prices
            THEN FAdd(FMul(FMul(row.Shares, close_prices[row.Symbol]), MILS), rest)
            ELSE rest

----------------------------------------------------------------------------
(* The rebalance of main() *)

HeldNever(p, symbol) == FALSE

(* symbol in portfolio *)
Held(p, symbol) == symbol \in Keys(p)

(* cost = notional * BROKERAGE_RATE, in mils *)
Brokerage(shares, price) == FMul(shares, price)

CreditGross(c, proceeds, cost) == FAdd(c, proceeds)

(* cash += proceeds - cost *)
Credit(c, proceeds, cost) == FAdd(c, FSub(proceeds, cost))

(* cash -= total_cost *)
Debit(c, total_cost) == FSub(c, total_cost)

AffordableAlways(shares, c, total_cost) == shares > 0

(* shares > 0 and cash >= total_cost *)
Affordable(shares, c, total_cost) == shares > 0 /\ FGe(c, total_cost)

(* SELL stocks not in selected; st = [cash, portfolio, trades, aborted]. *)
RECURSIVE SellPass(_, _, _, _)
SellPass(keys, st, sel, prices) ==
    IF keys = <<>> THEN st
    ELSE LET symbol == Head(keys) IN
         IF symbol \in Range(sel) THEN SellPass(Tail(keys), st, sel, prices)
         ELSE LET price == Get(prices, symbol)
                  shares == SharesOf(st.portfolio, symbol)
                  proceeds == FMul(FMul(shares, price), MILS)
                  cost == Brokerage(shares, price)
              IN SellPass(Tail(keys),
                    [st EXCEPT !.cash = Credit(@, proceeds, cost),
                               !.trades = Append(@, TradeRow(symbol, "SELL", price, shares, cost)),
                               !.portfolio = Without(@, symbol)],
                    sel, prices)

BuySharesNoBuffer(cap, price) == IntDiv(cap, MAX_STOCKS * MILS * price)

(* shares = int(allocation / price),
   allocation = capital * (1 - MIN_CASH_BUFFER) / MAX_STOCKS *)
BuyShares(cap, price) ==
    IntDiv(cap * (10 - BUFFER_TENTHS), 10 * MAX_STOCKS * MILS * price)

(* BUY new stocks.  int() of a NaN quotient raises ValueError, which ends
   main() before anything is saved. *)
RECURSIVE BuyPass(_, _, _, _)
BuyPass(sel, st, cap, prices) ==
    IF sel = <<>> \/ st.aborted THEN st
    ELSE LET symbol == Head(sel) IN
         IF Held(st.portfolio, symbol) THEN BuyPass(Tail(sel), st, cap, prices)
         ELSE LET price == Get(prices, symbol) IN
              IF price = 0 THEN BuyPass(Tail(sel), st, cap, prices)
              ELSE IF price = NaN \/ cap = NaN
                   THEN [st EXCEPT !.aborted = TRUE]
              ELSE LET shares == BuyShares(cap, price)
                       cost == Brokerage(shares, price)
                       total_cost == shares * price * MILS + cost
                   IN IF Affordable(shares, st.cash, total_cost)
                      THEN BuyPass(Tail(sel),
                              [st EXCEPT !.cash = Debit(@, total_cost),
                                         !.portfolio = Append(@, PositionRow(symbol, shares)),
                                         !.trades = Append(@, TradeRow(symbol, "BUY", price, shares, cost))],
                              cap, prices)
                      ELSE BuyPass(Tail(sel), st, cap, prices)

Capital == IF nav_df = <<>> THEN INITIAL_CAPITAL * MILS ELSE nav_df[Len(nav_df)]

Cash0(prices) == FSub(Capital, calculate_portfolio_value(portfolio_df, prices))

Loaded(prices) ==
    [cash |-> Cash0(prices), portfolio |-> portfolio_df, trades |-> <<>>, aborted |-> FALSE]

(* The Price of the BUY row of every symbol held in p. *)
EntryPrices(p, prices) ==
    [s \in Keys(p) |-> IF s \in DOMAIN entry_price THEN entry_price[s] ELSE prices[s]]

(* The end of main(): NAV appended, portfolio and trades saved. *)
Save(st, prices) ==
    /\ nav_df' = Append(nav_df, FAdd(calculate_portfolio_value(st.portfolio, prices), st.cash))
    /\ portfolio_df' = st.portfolio
    /\ entry_price' = EntryPrices(st.portfolio, prices)
    /\ status' = "done"

(* An exception leaves main() before any file is written. *)
Abort ==
    /\ status' = "aborted"
    /\ UNCHANGED <<nav_df, portfolio_df, entry_price>>

----------------------------------------------------------------------------
(* Inputs of a run *)

Universe == <<"A", "B", "C", "D", "E", "F">>

Reverse(seq) == [i \in 1..Len(seq) |-> seq[Len(seq) + 1 - i]]

(* Latest closes in rupees. *)
BasePrice(s) ==
    CASE s = "A" -> 3000 [] s = "B" -> 4000 [] s = "C" -> 4499
      [] s = "D" -> 2000 [] OTHER -> 1000

(* What a run's price table may differ in from the base prices: one symbol
   moved, at 0, missing in the last row (NaN), or dropped from the universe
   file (the first entry changes nothing). *)
Moves == << <<"A", "at", 3000>>, <<"A", "at", 11000>>, <<"B", "at", 4400>>,
            <<"B", "at", 0>>, <<"D", "at", NaN>>, <<"E", "dropped", 0>> >>

(* latest_prices = close_data.iloc[-1].to_dict(): an entry per universe symbol. *)
PriceTable(move) ==
    [s \in Range(Universe) \ (IF move[2] = "dropped" THEN {move[1]} ELSE {}) |->
        IF s = move[1] THEN move[3] ELSE BasePrice(s)]

UniverseOf(prices) == SelectSeq(Universe, LAMBDA s : s \in DOMAIN prices)

(* A close series that passes the filter, with the two momentum terms given. *)
Good(m3, m6) == [err |-> FALSE, len |-> MIN_HISTORY, price |-> 3, dma200 |-> 1,
                 dma50 |-> 2, m3 |-> m3, m6 |-> m6]

Short(m3, m6) == [Good(m3, m6) EXCEPT !.len = MIN_HISTORY - 1]

(* Close data in which the first n symbols of the universe file pass the
   filter, the earlier in the file the higher the score. *)
RankedData(n) ==
    [s \in Range(Universe) |->
        LET i == CHOOSE i \in 1..Len(Universe) : Universe[i] = s
        IN IF i <= n THEN Good(Len(Universe) + 1 - i, 1) ELSE Short(1, 1)]

(* Close series for select_stocks alone: three passing ones (two of them with
   the same score) and, per symbol, one that fails one condition of the filter. *)
DataChoices(s) ==
    {Good(1, 1), Good(2, 1), Good(1, 2)} \cup
    { CASE s = "A" -> [Good(1, 1) EXCEPT !.err = TRUE]
        [] s = "B" -> Short(2, 1)
        [] s = "C" -> [Good(2, 1) EXCEPT !.price = 1]
        [] s = "D" -> [Good(2, 1) EXCEPT !.dma50 = 1]
        [] s = "E" -> Good(0, 5)
        [] OTHER -> Good(5, -1) }

----------------------------------------------------------------------------
(* Specification *)

Init ==
    /\ nav_df = <<>>
    /\ portfolio_df = <<>>
    /\ entry_price = <<>>
    /\ runs = 0
    /\ status = "idle"
    /\ friday = FALSE
    /\ universe = <<>>
    /\ score_data = <<>>
    /\ selected = <<>>
    /\ latest_prices = <<>>
    /\ capital = 0
    /\ loaded = <<>>
    /\ cash0 = 0
    /\ cash1 = 0
    /\ cash = 0
    /\ portfolio = <<>>
    /\ trades = <<>>

(* main() on a Friday. *)
RunFriday(prices, data) ==
    /\ runs < MaxRuns
    /\ runs' = runs + 1
    /\ \E sel \in {select_stocks(UniverseOf(prices), data)} :
       \E sold \in {SellPass(Keylist(portfolio_df), Loaded(prices), sel, prices)} :
       \E st \in {BuyPass(sel, sold, Capital, prices)} :
          /\ friday' = TRUE
          /\ universe' = UniverseOf(prices)
          /\ score_data' = data
          /\ selected' = sel
          /\ latest_prices' = prices
          /\ capital' = Capital
          /\ loaded' = portfolio_df
          /\ cash0' = Cash0(prices)
          /\ cash1' = sold.cash
          /\ cash' = st.cash
          /\ portfolio' = st.portfolio
          /\ trades' = st.trades
          /\ IF st.aborted THEN Abort ELSE Save(st, prices)

(* main() on any other day. *)
RunOtherDay(prices) ==
    /\ runs < MaxRuns
    /\ runs' = runs + 1
    /\ friday' = FALSE
    /\ universe' = UniverseOf(prices)
    /\ score_data' = <<>>
    /\ selected' = <<>>
    /\ latest_prices' = prices
    /\ capital' = Capital
    /\ loaded' = portfolio_df
    /\ cash0' = Cash0(prices)
    /\ cash1' = Cash0(prices)
    /\ cash' = Cash0(prices)
    /\ portfolio' = portfolio_df
    /\ trades' = <<>>
    /\ Save(Loaded(prices), prices)

Next ==
    \E k \in 1..Len(Moves) :
        \/ \E n \in 0..Len(Universe) : RunFriday(PriceTable(Moves[k]), RankedData(n))
        \/ RunOtherDay(PriceTable(Moves[k]))

Spec == Init /\ [][Next]_vars

(* select_stocks on its own, over every combination of close series. *)
SelectStocks(u, data) ==
    /\ status = "idle"
    /\ status' = "selected"
    /\ universe' = u
    /\ score_data' = data
    /\ selected' = select_stocks(u, data)
    /\ UNCHANGED <<nav_df, portfolio_df, entry_price, runs, friday, latest_prices,
                   capital, loaded, cash0, cash1, cash, portfolio, trades>>

SelNext ==
    \E r \in BOOLEAN :
    \E a \in DataChoices("A"), b \in DataChoices("B"), c \in DataChoices("C"),
       d \in DataChoices("D"), e \in DataChoices("E"), f \in DataChoices("F") :
        SelectStocks(IF r THEN Reverse(Universe) ELSE Universe,
                     [s \in Range(Universe) |->
                            CASE s = "A" -> a [] s = "B" -> b [] s = "C" -> c
                              [] s = "D" -> d [] s = "E" -> e [] OTHER -> f])

SelSpec == Init /\ [][SelNext]_vars

----------------------------------------------------------------------------
(* Properties *)

Ran == status \in {"done", "aborted"}

RECURSIVE FSum(_)
FSum(seq) == IF seq = <<>> THEN 0 ELSE FAdd(Head(seq), FSum(Tail(seq)))

Rows(action) == SelectSeq(trades, LAMBDA r : r.Action = action)
RowsOf(s, action) == {i \in 1..Len(trades) : trades[i].Symbol = s /\ trades[i].Action = action}
Notional(r) == FMul(FMul(r.Shares, r.Price), MILS)

(* Cash paid for the BUY rows, cash received for the SELL rows. *)
BuyOutlay == FSum([i \in 1..Len(Rows("BUY")) |->
                      FAdd(Notional(Rows("BUY")[i]), Rows("BUY")[i].Cost)])
SellIncome == FSum([i \in 1..Len(Rows("SELL")) |->
                      FSub(Notional(Rows("SELL")[i]), Rows("SELL")[i].Cost)])

(* Held when the run started and still a target. *)
Kept == Keys(loaded) \cap Range(selected)
(* Held when the run started and no longer a target. *)
Dropped == Keys(loaded) \ Range(selected)

(* C1. Cash conservation: in every run the cash at the end is the cash at the
   start, minus quantity x price plus brokerage for every BUY, plus
   shares x price minus brokerage for every SELL; nothing else changes cash. *)
CashConservation ==
    Ran => cash = FAdd(FSub(cash0, BuyOutlay), SellIncome)

CashConservationWitness ==
    /\ status = "done"
    /\ Len(Rows("BUY")) > 0
    /\ Len(Rows("SELL")) > 0
    /\ cash # NaN
    /\ cash # cash0

(* C5. Exit pass: every symbol held and not in the target set gets exactly one
   SELL, for its full share count at its latest price (0 when the price table
   has no entry for it), leaves the holdings, and its proceeds net of brokerage
   are credited; a held target symbol gets no SELL; every SELL precedes every
   BUY. *)
ExitPass ==
    (Ran /\ friday) =>
        /\ \A s \in Dropped :
              /\ Cardinality(RowsOf(s, "SELL")) = 1
              /\ \A i \in RowsOf(s, "SELL") :
                    /\ trades[i].Shares = SharesOf(loaded, s)
                    /\ trades[i].Price =
                          (IF s \in DOMAIN latest_prices THEN latest_prices[s] ELSE 0)
                    /\ trades[i].Cost = FMul(trades[i].Shares, trades[i].Price)
              /\ s \notin Keys(portfolio)
              /\ status = "done" => s \notin Keys(portfolio_df)
        /\ \A i \in 1..Len(trades) :
              trades[i].Action = "SELL" => trades[i].Symbol \in Dropped
        /\ cash1 = FAdd(cash0, SellIncome)
        /\ \A i, j \in 1..Len(trades) :
              (i < j /\ trades[i].Action = "BUY") => trades[j].Action # "SELL"

ExitPassWitness ==
    /\ status = "done"
    /\ friday
    /\ Dropped # {}
    /\ Kept # {}
    /\ Len(Rows("BUY")) > 0
    /\ cash1 # NaN
    /\ cash1 > cash0

(* The symbols of the universe that the claim's filter lets through, and the
   composite score, read off the close data. *)
Eligible ==
    {s \in Range(universe) :
        /\ s \in DOMAIN score_data
        /\ ~score_data[s].err
        /\ score_data[s].len >= 200
        /\ score_data[s].price > score_data[s].dma200
        /\ score_data[s].dma50 > score_data[s].dma200
        /\ score_data[s].m3 > 0
        /\ score_data[s].m6 > 0}
Composite(s) == score_data[s].m3 + score_data[s].m6
Pos(s) == CHOOSE i \in 1..Len(universe) : universe[i] = s

(* C6. Selector: the result holds min(K, number passing) distinct symbols, all
   of them passing the history and trend filter; no passing symbol left out
   scores strictly higher than a returned one; the result is in non-increasing
   score order; symbols with equal scores stand in the order of the symbols
   list, among themselves and against an equal-scoring symbol left out. *)
SelectorCorrect ==
    (status = "selected" \/ (Ran /\ friday)) =>
        /\ Range(selected) \subseteq Eligible
        /\ Cardinality(Range(selected)) = Len(selected)
        /\ Len(selected) = IF Cardinality(Eligible) < MAX_STOCKS
                           THEN Cardinality(Eligible) ELSE MAX_STOCKS
        /\ \A s \in Eligible \ Range(selected) : \A t \in Range(selected) :
              /\ Composite(s) <= Composite(t)
              /\ Composite(s) = Composite(t) => Pos(t) < Pos(s)
        /\ \A i, j \in 1..Len(selected) :
              i < j => /\ Composite(selected[i]) >= Composite(selected[j])
                       /\ Composite(selected[i]) = Composite(selected[j])
                             => Pos(selected[i]) < Pos(selected[j])

SelectorCorrectWitness ==
    /\ status = "selected"
    /\ Cardinality(Eligible) > MAX_STOCKS
    /\ Len(selected) = MAX_STOCKS
    /\ \E s \in Eligible \ Range(selected) : Composite(s) = Composite(selected[MAX_STOCKS])
    /\ \E i \in 1..(MAX_STOCKS - 1) : Composite(selected[i]) > Composite(selected[i + 1])

(* C10. A run on another day than Friday logs no trade, saves the holdings it
   loaded and appends exactly one NAV record; after a Friday run every symbol
   held is a target symbol with a positive share count; the holdings never
   number more than MAX_STOCKS. *)
GateAndHoldingsBound ==
    /\ [](/\ (status = "done" /\ ~friday) => (trades = <<>> /\ portfolio_df = loaded)
          /\ (Ran /\ friday) =>
                \A i \in 1..Len(portfolio) :
                    portfolio[i].Symbol \in Range(selected) /\ portfolio[i].Shares > 0
          /\ (status = "done" /\ friday) => portfolio_df = portfolio
          /\ Len(portfolio_df) <= MAX_STOCKS
          /\ Cardinality(Keys(portfolio_df)) = Len(portfolio_df))
    /\ [][(status' = "done" /\ ~friday') =>
             (Len(nav_df') = Len(nav_df) + 1 /\ SubSeq(nav_df', 1, Len(nav_df)) = nav_df)]_vars

GateAndHoldingsBoundWitness ==
    /\ status = "done"
    /\ ~friday
    /\ Len(portfolio_df) = MAX_STOCKS
    /\ Len(nav_df) > 1

(* Notional (shares x price) of all rows and of the BUY rows of the run. *)
AllNotional == FSum([i \in 1..Len(trades) |-> Notional(trades[i])])
BuyNotional == FSum([i \in 1..Len(Rows("BUY")) |-> Notional(Rows("BUY")[i])])

(* C3 as stated. Capital guarantee: the notional of all trade intents of the
   run plus MIN_CASH_BUFFER x capital never exceeds the run's capital. *)
CapitalGuaranteeAllIntents ==
    (status = "done" /\ capital # NaN /\ AllNotional # NaN) =>
        10 * AllNotional + BUFFER_TENTHS * capital <= 10 * capital

(* C3 amended. Whenever a run emits a BUY, its capital is a number and the
   notional of its BUY intents plus MIN_CASH_BUFFER x capital does not exceed
   the capital. *)
BuyBudget ==
    (Ran /\ Len(Rows("BUY")) > 0) =>
        /\ capital # NaN
        /\ BuyNotional # NaN
        /\ 10 * BuyNotional + BUFFER_TENTHS * capital <= 10 * capital

(* MAX_STOCKS BUYs in one run, one of them taking a whole allocation. *)
BuyBudgetWitness ==
    /\ status = "done"
    /\ Len(Rows("BUY")) = MAX_STOCKS
    /\ \E i \in 1..Len(trades) :
          10 * MAX_STOCKS * Notional(trades[i]) = (10 - BUFFER_TENTHS) * capital

(* The price the run saw for s, a target symbol. *)
PriceOf(s) == IF s \in DOMAIN latest_prices THEN latest_prices[s] ELSE 0
Priced(s) == PriceOf(s) # 0 /\ PriceOf(s) # NaN
Bought(s) == RowsOf(s, "BUY") # {}

(* floor(allocation / price) with allocation = capital x (1 - 0.10) / 5 *)
EntryQuantity(s) == (9 * capital) \div (10 * 5 * MILS * PriceOf(s))

(* Cash left when the entry pass reaches selected[i]: the cash after the SELL
   pass less what the BUYs of the targets ranked before it took. *)
CashAt(i) ==
    FSub(cash1, FSum([k \in 1..Len(Rows("BUY")) |->
                        LET r == Rows("BUY")[k]
                        IN IF \E j \in 1..(i - 1) : selected[j] = r.Symbol
                           THEN FAdd(Notional(r), r.Cost) ELSE 0]))

(* C4 as stated. Entry sizing: every BUY is for floor(base / price) shares with
   base = capital / K. *)
EntrySizingCapitalOverK ==
    Ran => \A i \in 1..Len(trades) :
              trades[i].Action = "BUY" =>
                  trades[i].Shares = capital \div (MAX_STOCKS * MILS * trades[i].Price)

(* The entry pass gets as far as selected[i]: no target before it or at it
   stopped the run (a target not held whose price is not 0, when that price or
   the capital is not a number). *)
Reached(i) ==
    \A j \in 1..i :
        \/ selected[j] \in Kept
        \/ PriceOf(selected[j]) = 0
        \/ (capital # NaN /\ PriceOf(selected[j]) # NaN)

(* C4 amended. Entry sizing: a target symbol that is not held, has a latest
   price other than 0 and is reached by the entry pass is bought if and only
   if quantity = floor(capital x (1 - MIN_CASH_BUFFER) / MAX_STOCKS / price) is
   positive and quantity x price x (1 + brokerage rate) is at most the cash
   left at that point; the BUY is for exactly that quantity and creates the
   position; no other symbol is bought; BUYs follow the ranked order; from
   empty holdings with capital INITIAL_CAPITAL and MAX_STOCKS targets priced
   from 1 to 9000, MAX_STOCKS BUYs are emitted, each of floor(9000 / price). *)
EntrySizing ==
    (Ran /\ friday) =>
        /\ \A i \in 1..Len(selected) :
              LET s == selected[i] IN
              IF s \in Kept \/ PriceOf(s) = 0 \/ ~Reached(i) THEN ~Bought(s)
              ELSE /\ Bought(s) <=>
                        /\ EntryQuantity(s) > 0
                        /\ FGe(CashAt(i), EntryQuantity(s) * PriceOf(s) * MILS
                                            + EntryQuantity(s) * PriceOf(s))
                   /\ Bought(s) =>
                        /\ Cardinality(RowsOf(s, "BUY")) = 1
                        /\ \A k \in RowsOf(s, "BUY") :
                              /\ trades[k].Shares = EntryQuantity(s)
                              /\ trades[k].Price = PriceOf(s)
                        /\ s \in Keys(portfolio)
                        /\ SharesOf(portfolio, s) = EntryQuantity(s)
                        /\ status = "done" => SharesOf(portfolio_df, s) = EntryQuantity(s)
                   /\ ~Bought(s) => s \notin Keys(portfolio)
        /\ \A k \in 1..Len(trades) :
              trades[k].Action = "BUY" => trades[k].Symbol \in Range(selected) \ Kept
        /\ \A k, m \in 1..Len(Rows("BUY")) :
              k < m => \E i, j \in 1..Len(selected) :
                          /\ i < j
                          /\ selected[i] = Rows("BUY")[k].Symbol
                          /\ selected[j] = Rows("BUY")[m].Symbol
        /\ (/\ loaded = <<>>
            /\ capital = INITIAL_CAPITAL * MILS
            /\ Len(selected) = MAX_STOCKS
            /\ \A i \in 1..Len(selected) :
                  Priced(selected[i]) /\ PriceOf(selected[i]) <= 9000)
           => /\ Len(Rows("BUY")) = MAX_STOCKS
              /\ \A i \in 1..MAX_STOCKS :
                    /\ trades[i].Symbol = selected[i]
                    /\ trades[i].Shares = 9000 \div trades[i].Price

(* A completed rebalance with a BUY, and a target left out because the cash
   did not cover a positive quantity. *)
EntrySizingWitness ==
    /\ status = "done"
    /\ friday
    /\ Len(Rows("BUY")) > 0
    /\ capital # NaN
    /\ \E s \in Range(selected) \ Kept :
          /\ Priced(s)
          /\ EntryQuantity(s) > 0
          /\ ~Bought(s)

(* C7 as stated. A target symbol whose latest price is zero or missing is
   skipped for buying, and the run does not abort. *)
PriceFailureSkipped ==
    (status # "idle" /\ status # "selected" /\ friday) =>
        \A s \in Range(selected) \ Kept :
            ~Priced(s) => (status = "done" /\ ~Bought(s) /\ s \notin Keys(portfolio_df))

(* C8 as stated (the "if" part). A held target symbol that was never added to,
   whose price is above its average cost, whose position is worth less than
   one base allocation and for which floor(base / price) is positive, receives
   an ADD of that quantity. *)
PyramidedAdd ==
    (status = "done" /\ friday /\ capital # NaN) =>
        \A s \in Kept :
            (/\ Priced(s)
             /\ s \in DOMAIN entry_price
             /\ PriceOf(s) > entry_price[s]
             /\ SharesOf(loaded, s) * PriceOf(s) * MILS * MAX_STOCKS < capital
             /\ capital \div (MAX_STOCKS * MILS * PriceOf(s)) > 0)
            => SharesOf(portfolio_df, s) =
                  SharesOf(loaded, s) + capital \div (MAX_STOCKS * MILS * PriceOf(s))

(* C8 amended. A target symbol that is already held receives no trade at all in
   a rebalance: no ADD (the only actions are SELL and BUY), and its share
   count stays what it was. *)
HeldTargetUntouched ==
    (Ran /\ friday) =>
        /\ \A s \in Kept :
              /\ \A i \in 1..Len(trades) : trades[i].Symbol # s
              /\ Cardinality({i \in 1..Len(portfolio) : portfolio[i].Symbol = s}) = 1
              /\ SharesOf(portfolio, s) = SharesOf(loaded, s)
        /\ \A i \in 1..Len(trades) : trades[i].Action \in {"BUY", "SELL"}

(* A held target symbol in the very case the claim gives an ADD to. *)
HeldTargetUntouchedWitness ==
    /\ status = "done"
    /\ friday
    /\ capital # NaN
    /\ \E s \in Kept :
          /\ Priced(s)
          /\ PriceOf(s) > entry_price[s]
          /\ SharesOf(loaded, s) * PriceOf(s) * MILS * MAX_STOCKS < capital
          /\ capital \div (MAX_STOCKS * MILS * PriceOf(s)) > 0

(* C9 as stated. NAV accounting: the NAV record a run appends is the run's
   capital minus the brokerage of the trades it logged. *)
NavIsCapitalLessBrokerage ==
    status = "done" =>
        nav_df[Len(nav_df)] =
            FSub(capital, FSum([i \in 1..Len(trades) |-> trades[i].Cost]))

(* C2 as stated. Idempotence: a rebalance run right after a rebalance, with the
   same target set and the same prices, emits no trade and leaves the holdings
   as they were. *)
Idempotence ==
    [][(/\ status = "done" /\ friday
        /\ status' = "done" /\ friday'
        /\ selected' = selected
        /\ latest_prices' = latest_prices)
       => (trades' = <<>> /\ portfolio_df' = portfolio_df)]_vars

====
